---- MODULE Spec2Model ----
(***************************************************************************)
(* The shader builder of src/lib.rs: a Shader collecting declarations and  *)
(* the Scope builder recording the instructions of one function body.      *)
(* Host closures (function bodies, block bodies) run between the start and *)
(* the end of the builder call that invokes them; the calls a closure      *)
(* makes act on the innermost open scope.                                  *)
(***************************************************************************)
EXTENDS Integers, Sequences, FiniteSets, TLC

VARIABLES
  decls,               \* Shader::decls
  next_fun_handle,     \* Shader::next_fun_handle
  next_global_handle,  \* Shader::next_global_handle
  stack,               \* the scopes under construction, outermost first
  ret,                 \* the value returned by the last completed call
  call,                \* the last builder call (or closure entry) and its arguments
  other                \* the builders owned by the threads that are not running

vars == <<decls, next_fun_handle, next_global_handle, stack, ret, call, other>>

----------------------------------------------------------------------------
(* Bounds of the model *)

MaxDecls == 5
MaxInstrs == 4
MaxDepth == 2
MaxFuns == 2
MaxArity == 18
MaxMore == 3
MaxEach == 2

----------------------------------------------------------------------------
(* Types, handles, expressions *)

Ty(p, d) == [prim_ty |-> p, dim |-> d, array_dims |-> <<>>]
TyInt == Ty("Int", "Scalar")
TyUInt == Ty("UInt", "Scalar")
TyBool == Ty("Bool", "Scalar")

global(h) == [k |-> "Global", handle |-> h]
fun_arg(h) == [k |-> "FunArg", handle |-> h]
fun_var(s, h) == [k |-> "FunVar", subscope |-> s, handle |-> h]

LitInt(v) == [e |-> "LitInt", v |-> v]
LitUInt(v) == [e |-> "LitUInt", v |-> v]
LitBool(b) == [e |-> "LitBool", b |-> b]
MutVar(h) == [e |-> "MutVar", h |-> h]
Not(a) == [e |-> "Not", a |-> a]
Add(a, b) == [e |-> "Add", a |-> a, b |-> b]
Lt(a, b) == [e |-> "Lt", a |-> a, b |-> b]
FunCall(f, args) == [e |-> "FunCall", fun |-> f, args |-> args]
LitFloat(v) == [e |-> "LitFloat", v |-> v]
LitInt2(v) == [e |-> "LitInt2", v |-> v]
LitInt3(v) == [e |-> "LitInt3", v |-> v]
LitInt4(v) == [e |-> "LitInt4", v |-> v]
SwizzleNode(object, sw) == [e |-> "Swizzle", object |-> object, swizzle |-> sw]

\* SwizzleSelector and Swizzle
SwizzleSelector == {"X", "Y", "Z", "W"}
D1(x) == [sw |-> "D1", x |-> x]
D2(x, y) == [sw |-> "D2", x |-> x, y |-> y]
D3(x, y, z) == [sw |-> "D3", x |-> x, y |-> y, z |-> z]
D4(x, y, z, w) == [sw |-> "D4", x |-> x, y |-> y, z |-> z, w |-> w]

\* Expr<T>: the erased node and the phantom type T (as T::ty())
Expr(ty, erased) == [ty |-> ty, erased |-> erased]

\* Var<T>::new(handle) and Var::to_expr
VarNew(ty, handle) == Expr(ty, MutVar(handle))

UserDefined(n) == [h |-> "UserDefined", n |-> n]
MainHandle == [h |-> "Main"]

Void == [r |-> "Void"]
RetExpr(ty, e) == [r |-> "Expr", ty |-> ty, expr |-> e]


----------------------------------------------------------------------------
(* Scopes, instructions, declarations *)

ErasedScopeNew(id) == [id |-> id, instructions |-> <<>>, next_var |-> 0]

VarDecl(ty, handle, init) ==
  [i |-> "VarDecl", ty |-> ty, handle |-> handle, init_value |-> init]
Return(r) == [i |-> "Return", ret |-> r]
Continue == [i |-> "Continue"]
Break == [i |-> "Break"]
If(c, s) == [i |-> "If", condition |-> c, scope |-> s]
ElseIf(c, s) == [i |-> "ElseIf", condition |-> c, scope |-> s]
Else(s) == [i |-> "Else", scope |-> s]
For(ty, h, ie, c, p, s) ==
  [i |-> "For", init_ty |-> ty, init_handle |-> h, init_expr |-> ie,
   condition |-> c, post_expr |-> p, scope |-> s]
While(c, s) == [i |-> "While", condition |-> c, scope |-> s]
MutateVar(v, e) == [i |-> "MutateVar", var |-> v, expr |-> e]

BlockInstrs == {"If", "ElseIf", "Else", "For", "While"}

ErasedFunNew(args, scope, r) == [args |-> args, scope |-> scope, ret |-> r]

Main(f) == [d |-> "Main", fun |-> f]
FunDef(n, f) == [d |-> "FunDef", handle |-> n, fun |-> f]
Const(n, ty, e) == [d |-> "Const", handle |-> n, ty |-> ty, expr |-> e]
In(n, ty) == [d |-> "In", handle |-> n, ty |-> ty]
Out(n, ty) == [d |-> "Out", handle |-> n, ty |-> ty]

----------------------------------------------------------------------------
(* Host-side values available to the calling program *)

TyUnit == Ty("Unit", "Scalar")
NoExpr == [e |-> "None"]
Unit == Expr(TyUnit, NoExpr)

\* ErasedReturn::from(R): () gives Void, Expr<T> gives Expr(T::ty(), erased)
ErasedReturnFrom(v) == IF v.ty = TyUnit THEN Void ELSE RetExpr(v.ty, v.erased)

\* literals the host lifts with From<T> (lit!)
Lits == {Expr(TyInt, LitInt(17)), Expr(TyUInt, LitUInt(1))}
Consts == {Expr(TyUInt, LitUInt(1))}
Conds == {Expr(TyBool, LitBool(TRUE)), Expr(TyBool, LitBool(FALSE))}
UnlessConds == {Expr(TyBool, LitBool(FALSE))}
LoopConds == {Expr(TyBool, Lt(LitInt(1), LitInt(2)))}
LoopInits == {Expr(TyInt, LitInt(0))}
Types == {TyInt}
RetTypes == {TyUnit, TyInt}
ArgLists == {<<>>, <<TyInt>>, <<TyUInt, TyInt>>}

\* the closures handed to loop_for: |a| a.lt(lit!(10)) and |a| a + 1
CondFns == {"lt10"}
StepFns == {"add1"}
ApplyCond(f, a) == Expr(TyBool, Lt(a.erased, LitInt(10)))
ApplyStep(f, a) == Expr(a.ty, Add(a.erased, LitInt(1)))

\* impl Not for Expr<bool>
NotExpr(c) == Expr(c.ty, Not(c.erased))

----------------------------------------------------------------------------
(* The scopes under construction *)

\* One open scope: the Scope being filled by a running closure, with the
\* local variables of the builder call that runs the closure.
\*   erased     Scope::erased
\*   blk        the builder call whose closure is filling this scope
\*   R          the return type parameter of Scope<R>
\*   args       the argument types (function bodies only)
\*   condition, post_expr, init_var   locals of when / loop_for / loop_while
\*   when       the When chain borrowing this scope: the chained calls
\*              completed so far (empty: no When is alive)
\*   given      the arguments the host passed to the call, and those the call
\*              passes to the closure
\*   log        the instructions appended by the calls made on this scope
NewFrame(erased, blk, R, args, condition, post_expr, init_var, given) ==
  [erased |-> erased, blk |-> blk, R |-> R, args |-> args,
   condition |-> condition, post_expr |-> post_expr, init_var |-> init_var,
   when |-> <<>>, given |-> given, log |-> <<>>]

Top == stack[Len(stack)]
Parent == stack[Len(stack) - 1]
SetTop(f) == [stack EXCEPT ![Len(stack)] = f]
PopInto(p) == [SubSeq(stack, 1, Len(stack) - 1) EXCEPT ![Len(stack) - 1] = p]

Last(s) == s[Len(s)]

RECURSIVE InstrCount(_)
InstrCount(instrs) ==
  IF instrs = <<>> THEN 0
  ELSE LET h == Head(instrs) IN
       1 + (IF h.i \in BlockInstrs THEN InstrCount(h.scope.instructions) ELSE 0)
         + InstrCount(Tail(instrs))

RECURSIVE SumDecls(_)
SumDecls(ds) ==
  IF ds = <<>> THEN 0
  ELSE (IF Head(ds).d \in {"Main", "FunDef"}
        THEN InstrCount(Head(ds).fun.scope.instructions) ELSE 0)
       + SumDecls(Tail(ds))

RECURSIVE SumFrames(_)
SumFrames(fs) ==
  IF fs = <<>> THEN 0
  ELSE InstrCount(Head(fs).erased.instructions) + SumFrames(Tail(fs))

\* instructions recorded so far, counting the one each open block will add
Size == SumDecls(decls) + SumFrames(stack)
        + (IF stack = <<>> THEN 0 ELSE Len(stack) - 1)

Room(n) == Size + n <= MaxInstrs

\* the variables and arguments the running closures hold
FrameVars(f) ==
  {VarNew(f.erased.instructions[j].ty, f.erased.instructions[j].handle) :
     j \in {j \in 1..Len(f.erased.instructions) :
              f.erased.instructions[j].i = "VarDecl"}}

\* ToFun::build_fn numbering the arguments from 1
BuildFnArgsFromOne(args) ==
  [k \in 1..Len(args) |-> Expr(args[k], MutVar(fun_arg(k)))]

\* ToFun::build_fn: the expressions handed to the closure for its arguments
BuildFnArgs(args) ==
  [k \in 1..Len(args) |-> Expr(args[k], MutVar(fun_arg(k - 1)))]

FunArgs ==
  IF stack = <<>> THEN {}
  ELSE {stack[1].given.passed[k] : k \in 1..Len(stack[1].given.passed)}
Vars == UNION {FrameVars(stack[j]) : j \in 1..Len(stack)}
Visible == FunArgs \cup Vars

HostExprs(T) == {t \in Lits \cup Visible : t.ty = T}
HostValues(R) == IF R = TyUnit THEN {Unit} ELSE HostExprs(R)

\* the values of type R the running closure can return or leave with
ReturnValues == IF stack = <<>> THEN {} ELSE HostValues(Top.R)

----------------------------------------------------------------------------
(* Shader *)

\* the largest value of the u16 counters
U16Max == 65535

\* x += 1 on a u16: the sum when it fits; at u16::MAX the build decides, the
\* addition panics (overflow checks on) or wraps to 0 (overflow checks off)
IncU16(x) ==
  IF x < U16Max THEN {[panic |-> FALSE, v |-> x + 1]}
  ELSE {[panic |-> FALSE, v |-> (x + 1) % (U16Max + 1)], [panic |-> TRUE, v |-> x]}

\* what a call that panicked leaves to its caller
Panicked == [k |-> "Panic"]

\* Shader::new
Init ==
  /\ decls = <<>>
  /\ next_fun_handle = 0
  /\ next_global_handle = 0
  /\ stack = <<>>
  /\ ret = [k |-> "Unit"]
  /\ call = [op |-> "new"]
  /\ other = <<>>

\* Scope::new(id)
ScopeNew(id) == ErasedScopeNew(id)

\* Scope::deeper letting the sub-scope go on with the parent's counter
DeeperKeepsCounter(erased) ==
  [id |-> erased.id + 1, instructions |-> <<>>, next_var |-> erased.next_var]

\* Scope::deeper reusing the parent's id
DeeperSameId(erased) == ScopeNew(erased.id)

\* Scope::deeper
Deeper(erased) == ScopeNew(erased.id + 1)

\* ToFun::build_fn up to the call of the closure: the body scope
BuildFnScope == ScopeNew(0)

\* ToFun::build_fn after the closure returned r
BuildFn(f, r) == ErasedFunNew(f.args, f.erased, ErasedReturnFrom(r))

\* the last $arg_rank of each instantiation of impl_ToFun_args!, in order
ToFunLastRanks == <<1, 2, 3, 4, 5, 6, 7, 8, 9, 10, 11, 12, 13, 14, 15, 16>>

\* the numbers of arguments F: ToFun<R, A> is implemented for: no argument,
\* one argument, and the ranks 0..last of each instantiation of the macro
ToFunArities ==
  {0} \cup {1} \cup {ToFunLastRanks[j] + 1 : j \in 1..Len(ToFunLastRanks)}

\* the (name, type) pairs impl_FunCall_rec! is invoked on
FunCallNames ==
  <<"a", "b", "c", "d", "e", "f", "g", "h", "i", "j", "k", "l", "m", "n", "o", "p">>

\* impl_FunCall_rec!: the lengths of the lists impl_FunCall! is expanded on
RECURSIVE ImplFunCallRec(_)
ImplFunCallRec(names) ==
  IF Len(names) = 2 THEN {Len(names)}
  ELSE ImplFunCallRec(<<names[1]>> \o SubSeq(names, 3, Len(names)))
       \cup {Len(names)}

\* the numbers of arguments FunHandle<Expr<R>, A> has a call method for
FunCallArities == {0} \cup {1} \cup ImplFunCallRec(FunCallNames)

\* Shader::fun, entering f.build_fn(): the closure starts on a fresh scope
Fun(args, R) ==
  /\ stack = <<>>
  /\ Len(args) \in ToFunArities
  /\ stack' = <<NewFrame(BuildFnScope, "fun", R, args, NoExpr, NoExpr, Unit,
                         [args |-> args, R |-> R, passed |-> BuildFnArgs(args)])>>
  /\ call' = [op |-> "enter", of |-> "fun"]
  /\ UNCHANGED <<decls, next_fun_handle, next_global_handle, ret, other>>

\* Shader::fun handing out the counter's value after the increment
FunEndPostInc(r) ==
  /\ Len(stack) = 1
  /\ Top.blk = "fun"
  /\ LET fundef == BuildFn(Top, r)
         handle == next_fun_handle
     IN /\ next_fun_handle' = handle + 1
        /\ decls' = Append(decls, FunDef(handle, fundef))
        /\ ret' = [k |-> "FunHandle", erased |-> UserDefined(handle + 1)]
        /\ call' = [op |-> "fun", args |-> Top.args, body |-> Top.log, ret |-> r]
  /\ stack' = <<>>
  /\ UNCHANGED <<next_global_handle, other>>

\* Shader::fun, from the closure's return to the end
FunEnd(r) ==
  /\ Len(stack) = 1
  /\ Top.blk = "fun"
  /\ LET fundef == BuildFn(Top, r)
         handle == next_fun_handle
     IN /\ \E inc \in IncU16(handle) :
             IF inc.panic
             THEN /\ ret' = Panicked
                  /\ UNCHANGED <<decls, next_fun_handle>>
             ELSE /\ next_fun_handle' = inc.v
                  /\ decls' = Append(decls, FunDef(handle, fundef))
                  /\ ret' = [k |-> "FunHandle", erased |-> UserDefined(handle)]
        /\ call' = [op |-> "fun", args |-> Top.args, body |-> Top.log, ret |-> r]
  /\ stack' = <<>>
  /\ UNCHANGED <<next_global_handle, other>>

\* Shader::main_fun, entering f.build_fn()
MainFun(R) ==
  /\ stack = <<>>
  /\ stack' = <<NewFrame(BuildFnScope, "main_fun", R, <<>>, NoExpr, NoExpr, Unit,
                         [args |-> <<>>, R |-> R, passed |-> BuildFnArgs(<<>>)])>>
  /\ call' = [op |-> "enter", of |-> "main_fun"]
  /\ UNCHANGED <<decls, next_fun_handle, next_global_handle, ret, other>>

\* Shader::main_fun, from the closure's return to the end
MainFunEnd(r) ==
  /\ Len(stack) = 1
  /\ Top.blk = "main_fun"
  /\ LET fundef == BuildFn(Top, r)
     IN /\ decls' = Append(decls, Main(fundef))
        /\ ret' = [k |-> "FunHandle", erased |-> MainHandle]
        /\ call' = [op |-> "main_fun", args |-> Top.args, body |-> Top.log, ret |-> r]
  /\ stack' = <<>>
  /\ UNCHANGED <<next_fun_handle, next_global_handle, other>>

\* Shader::constant reading the function counter for its handle
ConstantFunCounter(expr) ==
  /\ stack = <<>>
  /\ LET handle == next_fun_handle
     IN /\ next_global_handle' = next_global_handle + 1
        /\ decls' = Append(decls, Const(handle, expr.ty, expr.erased))
        /\ ret' = [k |-> "Var", var |-> VarNew(expr.ty, global(handle))]
  /\ call' = [op |-> "constant", expr |-> expr]
  /\ UNCHANGED <<next_fun_handle, stack, other>>

\* Shader::constant
Constant(expr) ==
  /\ stack = <<>>
  /\ LET handle == next_global_handle
     IN \E inc \in IncU16(handle) :
          IF inc.panic
          THEN /\ ret' = Panicked
               /\ UNCHANGED <<decls, next_global_handle>>
          ELSE /\ next_global_handle' = inc.v
               /\ decls' = Append(decls, Const(handle, expr.ty, expr.erased))
               /\ ret' = [k |-> "Var", var |-> VarNew(expr.ty, global(handle))]
  /\ call' = [op |-> "constant", expr |-> expr]
  /\ UNCHANGED <<next_fun_handle, stack, other>>

\* Shader::input taking the position in decls for its handle
InputDeclIndex(T) ==
  /\ stack = <<>>
  /\ LET handle == Len(decls)
     IN /\ next_global_handle' = next_global_handle + 1
        /\ decls' = Append(decls, In(handle, T))
        /\ ret' = [k |-> "Var", var |-> VarNew(T, global(handle))]
  /\ call' = [op |-> "input", ty |-> T]
  /\ UNCHANGED <<next_fun_handle, stack, other>>

\* Shader::input
Input(T) ==
  /\ stack = <<>>
  /\ LET handle == next_global_handle
     IN \E inc \in IncU16(handle) :
          IF inc.panic
          THEN /\ ret' = Panicked
               /\ UNCHANGED <<decls, next_global_handle>>
          ELSE /\ next_global_handle' = inc.v
               /\ decls' = Append(decls, In(handle, T))
               /\ ret' = [k |-> "Var", var |-> VarNew(T, global(handle))]
  /\ call' = [op |-> "input", ty |-> T]
  /\ UNCHANGED <<next_fun_handle, stack, other>>

\* Shader::output without the increment of the counter
OutputNoBump(T) ==
  /\ stack = <<>>
  /\ LET handle == next_global_handle
     IN /\ next_global_handle' = handle
        /\ decls' = Append(decls, Out(handle, T))
        /\ ret' = [k |-> "Var", var |-> VarNew(T, global(handle))]
  /\ call' = [op |-> "output", ty |-> T]
  /\ UNCHANGED <<next_fun_handle, stack, other>>

\* Shader::output
Output(T) ==
  /\ stack = <<>>
  /\ LET handle == next_global_handle
     IN \E inc \in IncU16(handle) :
          IF inc.panic
          THEN /\ ret' = Panicked
               /\ UNCHANGED <<decls, next_global_handle>>
          ELSE /\ next_global_handle' = inc.v
               /\ decls' = Append(decls, Out(handle, T))
               /\ ret' = [k |-> "Var", var |-> VarNew(T, global(handle))]
  /\ call' = [op |-> "output", ty |-> T]
  /\ UNCHANGED <<next_fun_handle, stack, other>>

----------------------------------------------------------------------------
(* Scope: simple statements *)

\* the bookkeeping of a call on frame f that left its scope as erased after
\* appending instr; any When borrowed from the scope has been dropped
Record(f, erased, instr) ==
  [f EXCEPT !.erased = erased, !.log = Append(@, instr), !.when = <<>>]

PushInstr(erased, instr) ==
  [erased EXCEPT !.instructions = Append(@, instr)]

\* Scope::var without the increment of next_var
ScopeVarStale(erased, init_value) ==
  LET handle == fun_var(erased.id, erased.next_var)
  IN [erased |-> PushInstr(erased, VarDecl(init_value.ty, handle, init_value.erased)),
      var |-> VarNew(init_value.ty, handle)]

\* the body of Scope::var on a scope when the increment of next_var (a u16)
\* does not panic: the scope afterwards and the Var returned
ScopeVar(erased, init_value) ==
  LET n == erased.next_var
      handle == fun_var(erased.id, n)
  IN [erased |-> PushInstr([erased EXCEPT !.next_var = (n + 1) % (U16Max + 1)],
                           VarDecl(init_value.ty, handle, init_value.erased)),
      var |-> VarNew(init_value.ty, handle)]

\* Scope::var
Var(init_value) ==
  /\ stack # <<>>
  /\ \E inc \in IncU16(Top.erased.next_var) :
       IF inc.panic
       THEN /\ ret' = Panicked
            /\ UNCHANGED stack
       ELSE LET r == ScopeVar(Top.erased, init_value)
            IN /\ stack' = SetTop(Record(Top, r.erased, Last(r.erased.instructions)))
               /\ ret' = [k |-> "Var", var |-> r.var]
  /\ call' = [op |-> "var", init_value |-> init_value]
  /\ UNCHANGED <<decls, next_fun_handle, next_global_handle, other>>

\* Scope::leave
Leave(r) ==
  /\ stack # <<>>
  /\ Room(1)
  /\ LET instr == Return(ErasedReturnFrom(r))
     IN stack' = SetTop(Record(Top, PushInstr(Top.erased, instr), instr))
  /\ ret' = [k |-> "Unit"]
  /\ call' = [op |-> "leave", ret |-> r]
  /\ UNCHANGED <<decls, next_fun_handle, next_global_handle, other>>

\* Scope::abort
Abort ==
  /\ stack # <<>>
  /\ Room(1)
  /\ LET instr == Return(Void)
     IN stack' = SetTop(Record(Top, PushInstr(Top.erased, instr), instr))
  /\ ret' = [k |-> "Unit"]
  /\ call' = [op |-> "abort"]
  /\ UNCHANGED <<decls, next_fun_handle, next_global_handle, other>>

\* Scope::loop_continue
LoopContinue ==
  /\ stack # <<>>
  /\ Room(1)
  /\ stack' = SetTop(Record(Top, PushInstr(Top.erased, Continue), Continue))
  /\ ret' = [k |-> "Unit"]
  /\ call' = [op |-> "loop_continue"]
  /\ UNCHANGED <<decls, next_fun_handle, next_global_handle, other>>

\* Scope::loop_break
LoopBreak ==
  /\ stack # <<>>
  /\ Room(1)
  /\ stack' = SetTop(Record(Top, PushInstr(Top.erased, Break), Break))
  /\ ret' = [k |-> "Unit"]
  /\ call' = [op |-> "loop_break"]
  /\ UNCHANGED <<decls, next_fun_handle, next_global_handle, other>>

\* Scope::set with the two operands exchanged
SetSwapped(var, value) ==
  /\ stack # <<>>
  /\ Room(1)
  /\ LET instr == MutateVar(value.erased, var.erased)
     IN stack' = SetTop(Record(Top, PushInstr(Top.erased, instr), instr))
  /\ ret' = [k |-> "Unit"]
  /\ call' = [op |-> "set", var |-> var, value |-> value]
  /\ UNCHANGED <<decls, next_fun_handle, next_global_handle, other>>

\* Scope::set
Set(var, value) ==
  /\ stack # <<>>
  /\ Room(1)
  /\ LET instr == MutateVar(var.erased, value.erased)
     IN stack' = SetTop(Record(Top, PushInstr(Top.erased, instr), instr))
  /\ ret' = [k |-> "Unit"]
  /\ call' = [op |-> "set", var |-> var, value |-> value]
  /\ UNCHANGED <<decls, next_fun_handle, next_global_handle, other>>

----------------------------------------------------------------------------
(* Scope: blocks *)

\* or_else and or callable whatever happened on the scope since the when
WhenNeverDropped(f) == TRUE

\* a When borrowed from the scope of frame f is alive: it was returned by
\* when or or_else and nothing else has used the scope since
WhenAlive(f) == f.when # <<>> /\ Last(f.when).op # "or"

\* one completed call of a When chain: the call, the condition the host gave,
\* what its body appended, and the parent's instructions before the call
Link(op, sub, p) ==
  [op |-> op, condition |-> sub.given.condition, body |-> sub.log,
   before |-> p.erased.instructions]

\* the closure of a block call on the innermost scope starts on scope sub
Enter(outer, blk, sub, condition, post_expr, init_var, given) ==
  /\ stack' = Append(SetTop(outer),
                     NewFrame(sub, blk, outer.R, <<>>, condition, post_expr,
                              init_var, given))
  /\ UNCHANGED <<decls, next_fun_handle, next_global_handle, ret, other>>

\* the closure returned and the parent scope goes on counting its locals from
\* where the body stopped
CloseInherit(instr, chain) ==
  /\ stack' = PopInto([Parent EXCEPT
                         !.erased = PushInstr([@ EXCEPT !.next_var = Top.erased.next_var],
                                              instr),
                                     !.log = Append(@, instr),
                                     !.when = chain])
  /\ UNCHANGED <<decls, next_fun_handle, next_global_handle, other>>

\* the closure returned: instr goes to the parent scope, whose When chain
\* becomes chain
Close(instr, chain) ==
  /\ stack' = PopInto([Parent EXCEPT !.erased = PushInstr(@, instr),
                                     !.log = Append(@, instr),
                                     !.when = chain])
  /\ UNCHANGED <<decls, next_fun_handle, next_global_handle, other>>

\* Scope::when, up to the call of body
When(condition) ==
  /\ stack # <<>>
  /\ Room(1)
  /\ Top.erased.id < MaxDepth
  /\ Enter([Top EXCEPT !.when = <<>>], "when", Deeper(Top.erased),
           condition, NoExpr, Unit, [condition |-> condition])
  /\ call' = [op |-> "enter", of |-> "when", condition |-> condition]

\* Scope::unless handing the condition to when as it is
UnlessPlain(condition) ==
  /\ stack # <<>>
  /\ Room(1)
  /\ Top.erased.id < MaxDepth
  /\ Enter([Top EXCEPT !.when = <<>>], "when", Deeper(Top.erased),
           condition, NoExpr, Unit, [condition |-> condition])
  /\ call' = [op |-> "enter", of |-> "unless", condition |-> condition]

\* Scope::unless: self.when(!condition.into(), body)
Unless(condition) ==
  /\ stack # <<>>
  /\ Room(1)
  /\ Top.erased.id < MaxDepth
  /\ Enter([Top EXCEPT !.when = <<>>], "when", Deeper(Top.erased),
           NotExpr(condition), NoExpr, Unit, [condition |-> NotExpr(condition)])
  /\ call' = [op |-> "enter", of |-> "unless", condition |-> condition]

\* Scope::when, after body returned
WhenEnd ==
  /\ Len(stack) > 1
  /\ Top.blk = "when"
  /\ Close(If(Top.condition.erased, Top.erased), <<Link("when", Top, Parent)>>)
  /\ ret' = [k |-> "When", parent_scope |-> Parent.erased.id]
  /\ call' = [op |-> "when", condition |-> Top.given.condition, body |-> Top.log]

\* When::or_else, up to the call of body
OrElse(condition) ==
  /\ stack # <<>>
  /\ WhenAlive(Top)
  /\ Room(1)
  /\ Top.erased.id < MaxDepth
  /\ Enter(Top, "or_else", Deeper(Top.erased), condition, NoExpr, Unit,
           [condition |-> condition])
  /\ call' = [op |-> "enter", of |-> "or_else", condition |-> condition]

\* When::or_else, after body returned
OrElseEnd ==
  /\ Len(stack) > 1
  /\ Top.blk = "or_else"
  /\ Close(ElseIf(Top.condition.erased, Top.erased),
           Append(Parent.when, Link("or_else", Top, Parent)))
  /\ ret' = [k |-> "When", parent_scope |-> Parent.erased.id]
  /\ call' = [op |-> "or_else", condition |-> Top.given.condition, body |-> Top.log]

\* When::or, up to the call of body
Or ==
  /\ stack # <<>>
  /\ WhenAlive(Top)
  /\ Room(1)
  /\ Top.erased.id < MaxDepth
  /\ Enter(Top, "or", Deeper(Top.erased), Unit, NoExpr, Unit, [condition |-> Unit])
  /\ call' = [op |-> "enter", of |-> "or"]

\* When::or, after body returned
OrEnd ==
  /\ Len(stack) > 1
  /\ Top.blk = "or"
  /\ Close(Else(Top.erased), Append(Parent.when, Link("or", Top, Parent)))
  /\ ret' = [k |-> "Unit"]
  /\ call' = [op |-> "or", body |-> Top.log]

\* Scope::loop_for, up to the call of body
LoopFor(init_value, condition, iter_fold) ==
  /\ stack # <<>>
  /\ Room(2)
  /\ Top.erased.id < MaxDepth
  /\ LET r == ScopeVar(Deeper(Top.erased), init_value)
     IN Enter([Top EXCEPT !.when = <<>>], "loop_for", r.erased,
              ApplyCond(condition, r.var), ApplyStep(iter_fold, r.var), r.var,
              [init_value |-> init_value, condition |-> condition,
               iter_fold |-> iter_fold])
  /\ call' = [op |-> "enter", of |-> "loop_for", init_value |-> init_value,
              condition |-> condition, iter_fold |-> iter_fold]

\* Scope::loop_for naming the induction variable after the parent scope
LoopForEndOuterHandle ==
  /\ Len(stack) > 1
  /\ Top.blk = "loop_for"
  /\ Close(For(Top.init_var.ty, fun_var(Parent.erased.id, 0), Top.init_var.erased,
               Top.condition.erased, Top.post_expr.erased, Top.erased),
           <<>>)
  /\ ret' = [k |-> "Unit"]
  /\ call' = [op |-> "loop_for", init_value |-> Top.given.init_value,
              condition |-> Top.given.condition, iter_fold |-> Top.given.iter_fold,
              body |-> Top.log]

\* Scope::loop_for, after body returned
LoopForEnd ==
  /\ Len(stack) > 1
  /\ Top.blk = "loop_for"
  /\ Close(For(Top.init_var.ty, fun_var(Top.erased.id, 0), Top.init_var.erased,
               Top.condition.erased, Top.post_expr.erased, Top.erased),
           <<>>)
  /\ ret' = [k |-> "Unit"]
  /\ call' = [op |-> "loop_for", init_value |-> Top.given.init_value,
              condition |-> Top.given.condition, iter_fold |-> Top.given.iter_fold,
              body |-> Top.log]

\* Scope::loop_while, up to the call of body
LoopWhile(condition) ==
  /\ stack # <<>>
  /\ Room(1)
  /\ Top.erased.id < MaxDepth
  /\ Enter([Top EXCEPT !.when = <<>>], "loop_while", Deeper(Top.erased),
           condition, NoExpr, Unit, [condition |-> condition])
  /\ call' = [op |-> "enter", of |-> "loop_while", condition |-> condition]

\* Scope::loop_while pushing the sub-scope as it was before body ran
LoopWhileEndFresh ==
  /\ Len(stack) > 1
  /\ Top.blk = "loop_while"
  /\ Close(While(Top.condition.erased, Deeper(Parent.erased)), <<>>)
  /\ ret' = [k |-> "Unit"]
  /\ call' = [op |-> "loop_while", condition |-> Top.given.condition, body |-> Top.log]

\* Scope::loop_while, after body returned
LoopWhileEnd ==
  /\ Len(stack) > 1
  /\ Top.blk = "loop_while"
  /\ Close(While(Top.condition.erased, Top.erased), <<>>)
  /\ ret' = [k |-> "Unit"]
  /\ call' = [op |-> "loop_while", condition |-> Top.given.condition, body |-> Top.log]

----------------------------------------------------------------------------
(* Several builders *)

\* a Shader numbering on from the counters of the running builder
ShaderNewShared ==
  [decls |-> <<>>, next_fun_handle |-> next_fun_handle,
   next_global_handle |-> next_global_handle]

\* Shader::new
ShaderNew == [decls |-> <<>>, next_fun_handle |-> 0, next_global_handle |-> 0]

\* a builder as its thread holds it: the Shader, the scopes of the closures
\* the thread is running, and the value its last call returned
Builder(shader, scopes, returned) ==
  [decls |-> shader.decls, next_fun_handle |-> shader.next_fun_handle,
   next_global_handle |-> shader.next_global_handle,
   stack |-> scopes, ret |-> returned]

\* the builder of the running thread
Running ==
  Builder([decls |-> decls, next_fun_handle |-> next_fun_handle,
           next_global_handle |-> next_global_handle], stack, ret)

\* a second thread makes a builder of its own
NewBuilder ==
  /\ other = <<>>
  /\ other' = <<Builder(ShaderNew, <<>>, [k |-> "Unit"])>>
  /\ call' = [op |-> "new_builder"]
  /\ UNCHANGED <<decls, next_fun_handle, next_global_handle, stack, ret>>

\* the scheduler turns to the other thread: its builder runs from where it
\* stood, the running one waits
Switch ==
  /\ other # <<>>
  /\ other' = <<Running>>
  /\ decls' = other[1].decls
  /\ next_fun_handle' = other[1].next_fun_handle
  /\ next_global_handle' = other[1].next_global_handle
  /\ stack' = other[1].stack
  /\ ret' = other[1].ret
  /\ call' = [op |-> "switch"]

----------------------------------------------------------------------------
(* Function handles *)

\* FunHandle<R, A>: the handles Shader::fun has returned
FunHandle(erased, R, A) == [erased |-> erased, R |-> R, A |-> A]
Handles ==
  {FunHandle(UserDefined(decls[j].handle),
             IF decls[j].fun.ret = Void THEN TyUnit ELSE decls[j].fun.ret.ty,
             decls[j].fun.args) :
     j \in {j \in 1..Len(decls) : decls[j].d = "FunDef"}}

\* FunHandle::call with the arguments in reverse order
CallReversed(h, args) ==
  /\ h.R # TyUnit
  /\ Len(h.A) \in FunCallArities
  /\ Len(args) = Len(h.A)
  /\ \A k \in 1..Len(args) : args[k].ty = h.A[k]
  /\ ret' = [k |-> "Expr",
             expr |-> Expr(h.R, FunCall(h.erased,
                        [k \in 1..Len(args) |-> args[Len(args) + 1 - k].erased]))]
  /\ call' = [op |-> "call", handle |-> h, args |-> args]
  /\ UNCHANGED <<decls, next_fun_handle, next_global_handle, stack, other>>

\* FunHandle::call
Call(h, args) ==
  /\ h.R # TyUnit
  /\ Len(h.A) \in FunCallArities
  /\ Len(args) = Len(h.A)
  /\ \A k \in 1..Len(args) : args[k].ty = h.A[k]
  /\ ret' = [k |-> "Expr",
             expr |-> Expr(h.R, FunCall(h.erased,
                        [k \in 1..Len(args) |-> args[k].erased]))]
  /\ call' = [op |-> "call", handle |-> h, args |-> args]
  /\ UNCHANGED <<decls, next_fun_handle, next_global_handle, stack, other>>

----------------------------------------------------------------------------
(* Stage environments *)

TyFloat == Ty("Float", "Scalar")
\* [T; N] as ToType putting the extent N after those of T
TyArrayInnerFirst(ty, n) == [ty EXCEPT !.array_dims = @ \o <<n>>]

\* [T; N] as ToType, and the unsized [T] (a phantom type only)
TyArray(ty, n) == [ty EXCEPT !.array_dims = <<n>> \o @]
TySlice(elem) == [slice |-> elem]

BuiltIn(stage, b) == [stage |-> stage, b |-> b]
builtin(b) == [k |-> "BuiltIn", builtin |-> b]
ImmutBuiltIn(b) == [e |-> "ImmutBuiltIn", builtin |-> b]

\* Expr::new_builtin, Expr::new_immut_builtin
new_builtin(ty, b) == Expr(ty, MutVar(builtin(b)))
new_immut_builtin(ty, b) == Expr(ty, ImmutBuiltIn(b))

VertexShaderEnvNew ==
  LET B(b) == BuiltIn("Vertex", b)
  IN [vertex_id |-> new_immut_builtin(TyInt, B("VertexID")),
      instance_id |-> new_immut_builtin(TyInt, B("InstanceID")),
      base_vertex |-> new_immut_builtin(TyInt, B("BaseVertex")),
      base_instance |-> new_immut_builtin(TyInt, B("BaseInstance")),
      position |-> new_builtin(Ty("Float", "D4"), B("Position")),
      point_size |-> new_builtin(TyFloat, B("PointSize")),
      clip_distance |-> new_builtin(TySlice(TyFloat), B("ClipDistance"))]

TessCtrlShaderEnvNew ==
  LET B(b) == BuiltIn("TessCtrl", b)
  IN [max_patch_vertices_in |-> new_immut_builtin(TyInt, B("MaxPatchVerticesIn")),
      patch_vertices_in |-> new_immut_builtin(TyInt, B("PatchVerticesIn")),
      primitive_id |-> new_immut_builtin(TyInt, B("PrimitiveID")),
      invocation_id |-> new_immut_builtin(TyInt, B("InvocationID")),
      input |-> new_immut_builtin(TySlice("TessControlPerVertexIn"), B("In")),
      tess_level_outer |-> VarNew(TyArray(TyFloat, 4), builtin(B("TessellationLevelOuter"))),
      tess_level_inner |-> VarNew(TyArray(TyFloat, 2), builtin(B("TessellationLevelInner"))),
      output |-> VarNew(TySlice("TessControlPerVertexOut"), builtin(B("Out")))]

TessEvalShaderEnvNew ==
  LET B(b) == BuiltIn("TessEval", b)
  IN [patch_vertices_in |-> new_immut_builtin(TyInt, B("PatchVerticesIn")),
      primitive_id |-> new_immut_builtin(TyInt, B("PrimitiveID")),
      tess_coord |-> new_immut_builtin(Ty("Float", "D3"), B("TessCoord")),
      tess_level_outer |->
        new_immut_builtin(TyArray(TyFloat, 4), B("TessellationLevelOuter")),
      tess_level_inner |->
        new_immut_builtin(TyArray(TyFloat, 2), B("TessellationLevelInner")),
      input |-> new_immut_builtin(TySlice("TessEvaluationPerVertexIn"), B("In")),
      position |-> VarNew(Ty("Float", "D4"), builtin(B("Position"))),
      point_size |-> VarNew(TyFloat, builtin(B("PointSize"))),
      clip_distance |-> VarNew(TySlice(TyFloat), builtin(B("ClipDistance"))),
      cull_distance |-> VarNew(TySlice(TyFloat), builtin(B("ClipDistance")))]

GeometryShaderEnvNew ==
  LET B(b) == BuiltIn("Geometry", b)
  IN [primitive_id_in |-> new_immut_builtin(TyInt, B("PrimitiveIDIn")),
      invocation_id |-> new_immut_builtin(TyInt, B("InvocationID")),
      input |-> new_immut_builtin(TySlice("GeometryPerVertexIn"), B("In")),
      position |-> VarNew(Ty("Float", "D4"), builtin(B("Position"))),
      point_size |-> VarNew(TyFloat, builtin(B("PointSize"))),
      clip_distance |-> VarNew(TySlice(TyFloat), builtin(B("ClipDistance"))),
      cull_distance |-> VarNew(TySlice(TyFloat), builtin(B("CullDistance"))),
      primitive_id |-> VarNew(TyInt, builtin(B("PrimitiveID"))),
      layer |-> VarNew(TyInt, builtin(B("Layer"))),
      viewport_index |-> VarNew(TyInt, builtin(B("ViewportIndex")))]

FragmentShaderEnvNew ==
  LET B(b) == BuiltIn("Fragment", b)
  IN [frag_coord |-> new_builtin(Ty("Float", "D4"), B("FragCoord")),
      front_facing |-> new_builtin(TyBool, B("FrontFacing")),
      clip_distance |-> new_builtin(TySlice(TyFloat), B("ClipDistance")),
      cull_distance |-> new_builtin(TySlice(TyFloat), B("CullDistance")),
      point_coord |-> new_builtin(Ty("Float", "D2"), B("PointCoord")),
      primitive_id |-> new_builtin(TyInt, B("PrimitiveID")),
      sample_id |-> new_builtin(TyInt, B("SampleID")),
      sample_position |-> new_builtin(Ty("Float", "D2"), B("SamplePosition")),
      sample_mask_in |-> new_builtin(TyInt, B("SampleMaskIn")),
      layer |-> new_builtin(TyInt, B("Layer")),
      viewport_index |-> new_builtin(TyInt, B("ViewportIndex")),
      helper_invocation |-> new_builtin(TyBool, B("HelperInvocation")),
      frag_depth |-> VarNew(TyFloat, builtin(B("FragDepth"))),
      sample_mask |-> VarNew(TySlice(TyInt), builtin(B("SampleMask")))]

\* Shader::new_<stage>_shader up to the call of f: a new Shader and the
\* stage's environment
NewStageShader(stage, env) ==
  /\ decls' = <<>>
  /\ next_fun_handle' = 0
  /\ next_global_handle' = 0
  /\ stack' = <<>>
  /\ ret' = [k |-> "Env", env |-> env]
  /\ call' = [op |-> "new_shader", stage |-> stage]
  /\ UNCHANGED other

new_vertex_shader == NewStageShader("Vertex", VertexShaderEnvNew)
new_tess_ctrl_shader == NewStageShader("TessCtrl", TessCtrlShaderEnvNew)
new_tess_eval_shader == NewStageShader("TessEval", TessEvalShaderEnvNew)
new_geometry_shader == NewStageShader("Geometry", GeometryShaderEnvNew)
new_fragment_shader == NewStageShader("Fragment", FragmentShaderEnvNew)

\* the fields the environments list as outputs
EnvOutputs(stage) ==
  CASE stage = "Vertex" -> {"position", "point_size", "clip_distance"}
    [] stage = "TessCtrl" -> {"tess_level_outer", "tess_level_inner", "output"}
    [] stage = "TessEval" -> {"position", "point_size", "clip_distance", "cull_distance"}
    [] stage = "Geometry" -> {"position", "point_size", "clip_distance", "cull_distance",
                              "primitive_id", "layer", "viewport_index"}
    [] stage = "Fragment" -> {"frag_depth", "sample_mask"}

----------------------------------------------------------------------------
(* Expressions: swizzles *)

\* the number of components of a vector type, 1 for a scalar
DimN(ty) ==
  CASE ty.dim = "Scalar" -> 1
    [] ty.dim = "D2" -> 2
    [] ty.dim = "D3" -> 3
    [] ty.dim = "D4" -> 4

\* the impls of Swizzlable<S> for Expr<VN<T>>: S is a selector or an array of
\* 2..N selectors; sw is the list of the selectors given
HasSwizzlable(ty, sw) ==
  /\ ty.array_dims = <<>>
  /\ DimN(ty) \in 2..4
  /\ Len(sw) \in 1..DimN(ty)

\* the Swizzle built by the impl for len(sw) selectors, the first two swapped
SwizzleOfSwapped(sw) ==
  CASE Len(sw) = 1 -> D1(sw[1])
    [] Len(sw) = 2 -> D2(sw[2], sw[1])
    [] Len(sw) = 3 -> D3(sw[2], sw[1], sw[3])
    [] Len(sw) = 4 -> D4(sw[2], sw[1], sw[3], sw[4])

\* the Swizzle built by the impl for len(sw) selectors
SwizzleOf(sw) ==
  CASE Len(sw) = 1 -> D1(sw[1])
    [] Len(sw) = 2 -> D2(sw[1], sw[2])
    [] Len(sw) = 3 -> D3(sw[1], sw[2], sw[3])
    [] Len(sw) = 4 -> D4(sw[1], sw[2], sw[3], sw[4])

\* Swizzlable::swizzle(&self, sw) -> Self
SwizzleResult(base, sw) == Expr(base.ty, SwizzleNode(base.erased, SwizzleOf(sw)))

\* e.swizzle(sw)
Swizzle(base, sw) ==
  /\ HasSwizzlable(base.ty, sw)
  /\ ret' = [k |-> "Expr", expr |-> SwizzleResult(base, sw)]
  /\ call' = [op |-> "swizzle", base |-> base, sw |-> sw]
  /\ UNCHANGED <<decls, next_fun_handle, next_global_handle, stack, other>>

\* sw_extract!
SwExtract(a) ==
  CASE a = "x" -> "X"
    [] a = "r" -> "X"
    [] a = "y" -> "Y"
    [] a = "g" -> "Y"
    [] a = "z" -> "Z"
    [] a = "b" -> "Z"
    [] a = "w" -> "Z"
    [] a = "a" -> "Z"

\* sw!(e, .a.b.c.d): e.swizzle of the selectors sw_extract! gives
Sw(base, names) ==
  LET sw == [k \in 1..Len(names) |-> SwExtract(names[k])]
  IN /\ HasSwizzlable(base.ty, sw)
     /\ ret' = [k |-> "Expr", expr |-> SwizzleResult(base, sw)]
     /\ call' = [op |-> "sw", base |-> base, names |-> names]
     /\ UNCHANGED <<decls, next_fun_handle, next_global_handle, stack, other>>

----------------------------------------------------------------------------
(* Expressions: binary operators *)

\* the node ErasedExpr::$op(Box::new(a), Box::new(b))
BinNode(op, a, b) == [e |-> op, a |-> a, b |-> b]

\* Clone for Expr<T>
Clone(e) == Expr(e.ty, e.erased)

\* a host value of type i32, u32 or f32, and one of type bool
HostNum(ty, v) == [ty |-> ty, v |-> v]
HostBool(b) == [ty |-> TyBool, b |-> b]

\* From<T> for Expr<T> on the scalar host types
ExprFrom(raw) ==
  CASE raw.ty = TyInt -> Expr(TyInt, LitInt(raw.v))
    [] raw.ty = TyUInt -> Expr(TyUInt, LitUInt(raw.v))
    [] raw.ty = TyFloat -> Expr(TyFloat, LitFloat(raw.v))
    [] raw.ty = TyBool -> Expr(TyBool, LitBool(raw.b))

\* an operand as the host passes it: an Expr by value ("owned"), an &Expr
\* ("borrowed"), or a host value ("raw")
Operand(form, value) == [form |-> form, value |-> value]
OperandTy(x) == x.value.ty

\* the instantiations of impl_binop_Expr! and impl_binshift_Expr!: the
\* operators and the operand types $a, $b they are implemented for
HasBinop(op, a, b) ==
  /\ a.array_dims = <<>>
  /\ b.array_dims = <<>>
  /\ CASE op \in {"BitOr", "BitAnd", "BitXor"} ->
            /\ a.prim_ty = "Bool"
            /\ b = a \/ b = Ty("Bool", "Scalar")
       [] op \in {"Add", "Sub", "Mul", "Div"} ->
            /\ a.prim_ty \in {"Int", "UInt", "Float"}
            /\ b = a \/ b = Ty(a.prim_ty, "Scalar")
       [] op = "Rem" ->
            /\ a.prim_ty = "Float"
            /\ b = a \/ b = Ty("Float", "Scalar")
       [] op \in {"Shl", "Shr"} ->
            /\ a.prim_ty \in {"Int", "UInt", "Float"}
            /\ b = TyUInt
       [] OTHER -> FALSE

\* the six impls, the one for &Expr and a host value with its operands swapped
BinopOfSwapped(op, lhs, rhs) ==
  CASE lhs.form = "owned" /\ rhs.form = "owned" ->
         BinNode(op, lhs.value.erased, rhs.value.erased)
    [] lhs.form = "owned" /\ rhs.form = "borrowed" ->
         BinNode(op, lhs.value.erased, Clone(rhs.value).erased)
    [] lhs.form = "borrowed" /\ rhs.form = "owned" ->
         BinNode(op, Clone(lhs.value).erased, rhs.value.erased)
    [] lhs.form = "borrowed" /\ rhs.form = "borrowed" ->
         BinNode(op, Clone(lhs.value).erased, Clone(rhs.value).erased)
    [] lhs.form = "owned" /\ rhs.form = "raw" ->
         BinNode(op, lhs.value.erased, ExprFrom(rhs.value).erased)
    [] lhs.form = "borrowed" /\ rhs.form = "raw" ->
         BinNode(op, ExprFrom(rhs.value).erased, Clone(lhs.value).erased)

\* the six impls of ops::$op the macros generate for one pair of types
BinopOf(op, lhs, rhs) ==
  CASE lhs.form = "owned" /\ rhs.form = "owned" ->
         BinNode(op, lhs.value.erased, rhs.value.erased)
    [] lhs.form = "owned" /\ rhs.form = "borrowed" ->
         BinNode(op, lhs.value.erased, Clone(rhs.value).erased)
    [] lhs.form = "borrowed" /\ rhs.form = "owned" ->
         BinNode(op, Clone(lhs.value).erased, rhs.value.erased)
    [] lhs.form = "borrowed" /\ rhs.form = "borrowed" ->
         BinNode(op, Clone(lhs.value).erased, Clone(rhs.value).erased)
    [] lhs.form = "owned" /\ rhs.form = "raw" ->
         BinNode(op, lhs.value.erased, ExprFrom(rhs.value).erased)
    [] lhs.form = "borrowed" /\ rhs.form = "raw" ->
         BinNode(op, Clone(lhs.value).erased, ExprFrom(rhs.value).erased)

\* lhs op rhs
Binop(op, lhs, rhs) ==
  /\ lhs.form \in {"owned", "borrowed"}
  /\ HasBinop(op, OperandTy(lhs), OperandTy(rhs))
  /\ ret' = [k |-> "Expr", expr |-> Expr(OperandTy(lhs), BinopOf(op, lhs, rhs))]
  /\ call' = [op |-> "binop", operator |-> op, lhs |-> lhs, rhs |-> rhs]
  /\ UNCHANGED <<decls, next_fun_handle, next_global_handle, stack, other>>

----------------------------------------------------------------------------
(* Expressions: arrays *)

Array(ty, items) == [e |-> "Array", ty |-> ty, items |-> items]
ArrayLookup(object, index) == [e |-> "ArrayLookup", object |-> object, index |-> index]

\* a host array [T; N]
HostArray(items) == [ty |-> TyArray(items[1].ty, Len(items)), items |-> items]

\* From<[T; N]> for Expr<[T; N]>
RECURSIVE ExprFromArray(_)
ExprFromArray(array) ==
  LET from(t) == IF t.ty.array_dims = <<>> THEN ExprFrom(t) ELSE ExprFromArray(t)
  IN Expr(array.ty, Array(array.ty, [k \in 1..Len(array.items) |-> from(array.items[k]).erased]))

IsSlice(ty) == "slice" \in DOMAIN ty
IsArray(ty) == ~IsSlice(ty) /\ ty.array_dims # <<>>

\* the T of [T] and of [T; N]
ElemTy(ty) == IF IsSlice(ty) THEN ty.slice ELSE [ty EXCEPT !.array_dims = Tail(@)]

\* index.into() for impl Into<Expr<i32>>
IndexInto(index) ==
  CASE index.form = "owned" -> index.value
    [] index.form = "borrowed" -> Clone(index.value)
    [] index.form = "raw" -> ExprFrom(index.value)

\* the node of at, with the object and the index in each other's place
AtNodeSwapped(a, index) == ArrayLookup(IndexInto(index).erased, Clone(a).erased)

\* the node Expr<[T]>::at and Expr<[T; N]>::at build
AtNode(a, index) == ArrayLookup(Clone(a).erased, IndexInto(index).erased)

\* a host type: one of the ToPrimType types, or [T; N]
Prim(p, d) == [t |-> "prim", prim_ty |-> p, dim |-> d]
ArrayOf(elem, n) == [t |-> "array", elem |-> elem, n |-> n]

\* <T as ToType>::ty()
RECURSIVE ToType(_)
ToType(T) ==
  IF T.t = "prim" THEN Ty(T.prim_ty, T.dim) ELSE TyArray(ToType(T.elem), T.n)

\* T::ty() for a host type T
TypeOf(T) ==
  /\ ret' = [k |-> "Type", ty |-> ToType(T)]
  /\ call' = [op |-> "ty", T |-> T]
  /\ UNCHANGED <<decls, next_fun_handle, next_global_handle, stack, other>>

\* Expr::from(array)
FromArray(array) ==
  /\ ret' = [k |-> "Expr", expr |-> ExprFromArray(array)]
  /\ call' = [op |-> "from", array |-> array]
  /\ UNCHANGED <<decls, next_fun_handle, next_global_handle, stack, other>>

\* Expr<[T]>::at, Expr<[T; N]>::at
ExprAt(a, index) ==
  /\ IsSlice(a.ty) \/ IsArray(a.ty)
  /\ OperandTy(index) = TyInt
  /\ ret' = [k |-> "Expr", expr |-> Expr(ElemTy(a.ty), AtNode(a, index))]
  /\ call' = [op |-> "at", self |-> "Expr", a |-> a, index |-> index]
  /\ UNCHANGED <<decls, next_fun_handle, next_global_handle, stack, other>>

\* Var<[T]>::at
VarAt(a, index) ==
  /\ IsSlice(a.ty)
  /\ OperandTy(index) = TyInt
  /\ ret' = [k |-> "Var", var |-> Expr(ElemTy(a.ty), AtNode(Clone(a), index))]
  /\ call' = [op |-> "at", self |-> "Var", a |-> a, index |-> index]
  /\ UNCHANGED <<decls, next_fun_handle, next_global_handle, stack, other>>

----------------------------------------------------------------------------
(* Specifications *)

\* Host programs that register declarations of every kind; the closures
\* handed to fun and main_fun declare locals.
Next ==
  \/ Len(decls) < MaxDecls /\ Fun(<<>>, TyUnit)
  \/ FunEnd(Unit)
  \/ Len(decls) < MaxDecls /\ MainFun(TyUnit)
  \/ MainFunEnd(Unit)
  \/ \E expr \in Consts : Len(decls) < MaxDecls /\ Constant(expr)
  \/ \E T \in Types : Len(decls) < MaxDecls /\ Input(T)
  \/ \E T \in Types : Len(decls) < MaxDecls /\ Output(T)
  \/ Room(1) /\ Var(Expr(TyInt, LitInt(3)))

Spec == Init /\ [][Next]_vars

\* Host programs that build one function of no argument and no return value
\* out of straight-line statements.
NextStmts ==
  \/ \E args \in ArgLists, R \in RetTypes : decls = <<>> /\ Fun(args, R)
  \/ \E r \in ReturnValues : FunEnd(r)
  \/ \E init_value \in Lits : Room(1) /\ Var(init_value)
  \/ \E r \in ReturnValues : Leave(r)
  \/ Abort
  \/ LoopContinue
  \/ LoopBreak
  \/ \E var \in Vars : \E value \in {t \in Lits : t.ty = var.ty} : Set(var, value)

SpecStmts == Init /\ [][NextStmts]_vars

\* Host programs that build one function of no argument and no return value
\* out of local declarations and nested blocks; the body of a while loop may
\* call loop_continue.
NextBlocks ==
  \/ decls = <<>> /\ Fun(<<>>, TyUnit)
  \/ FunEnd(Unit)
  \/ \E init_value \in Lits : Room(1) /\ Var(init_value)
  \/ \E c \in Conds : When(c)
  \/ \E c \in UnlessConds : Unless(c)
  \/ WhenEnd
  \/ \E c \in Conds : OrElse(c)
  \/ OrElseEnd
  \/ Or
  \/ OrEnd
  \/ \E init_value \in LoopInits, c \in CondFns, s \in StepFns :
       LoopFor(init_value, c, s)
  \/ LoopForEnd
  \/ \E c \in LoopConds : LoopWhile(c)
  \/ LoopWhileEnd
  \/ stack # <<>> /\ Top.blk = "loop_while" /\ Top.log = <<>> /\ LoopContinue

SpecBlocks == Init /\ [][NextBlocks]_vars

\* Host programs that register functions of int arguments returning a
\* literal, and call the handles they hold
CallArgLists == {[k \in 1..n |-> TyInt] : n \in 0..MaxArity}
CallReturns == IF stack = <<>> THEN {} ELSE {t \in Lits : t.ty = Top.R}
CallArgs(h) ==
  {[k \in 1..Len(h.A) |-> Expr(TyInt, LitInt(k))],
   [k \in 1..Len(h.A) |-> Expr(TyInt, LitInt(Len(h.A) + 1 - k))]}

NextCalls ==
  \/ \E args \in CallArgLists, R \in RetTypes : Len(decls) < MaxFuns /\ Fun(args, R)
  \/ \E r \in CallReturns \cup {t \in {Unit} : stack # <<>> /\ Top.R = TyUnit} : FunEnd(r)
  \/ \E h \in Handles : \E args \in CallArgs(h) : Call(h, args)

SpecCalls == Init /\ [][NextCalls]_vars

\* Host programs that build expressions
SeqsUpTo(S, n) == UNION {[1..m -> S] : m \in 1..n}
SwBases ==
  {Expr(Ty("Int", "D2"), MutVar(fun_var(0, 0))),
   Expr(Ty("Int", "D2"), LitInt2(<<1, 2>>)),
   Expr(Ty("Int", "D3"), LitInt3(<<1, 2, 3>>)),
   Expr(Ty("Int", "D4"), LitInt4(<<1, 2, 3, 4>>))}
SwNames == {"x", "y", "z", "w", "r", "g", "b", "a"}

BinOps == {"BitOr", "BitAnd", "BitXor", "Add", "Sub", "Mul", "Div", "Rem", "Shl", "Shr"}
BinExprs ==
  {Expr(TyInt, LitInt(1)), Expr(TyInt, LitInt(2)), Expr(TyInt, MutVar(fun_var(0, 0))),
   Expr(TyUInt, LitUInt(2)), Expr(TyFloat, LitFloat(2)), Expr(TyBool, LitBool(TRUE)),
   Expr(Ty("Int", "D2"), LitInt2(<<1, 2>>))}
RawValues ==
  {HostNum(TyInt, 2), HostNum(TyUInt, 2), HostNum(TyFloat, 2), HostBool(TRUE)}
Operands ==
  {Operand(form, e) : form \in {"owned", "borrowed"}, e \in BinExprs}
  \cup {Operand("raw", v) : v \in RawValues}

HostArrays ==
  {HostArray(<<HostNum(TyInt, 1), HostNum(TyInt, 2), HostNum(TyInt, 3)>>),
   HostArray(<<HostArray(<<HostNum(TyInt, 1), HostNum(TyInt, 2)>>),
               HostArray(<<HostNum(TyInt, 3), HostNum(TyInt, 4)>>)>>),
   HostArray(<<HostArray(<<HostNum(TyInt, 1), HostNum(TyInt, 2), HostNum(TyInt, 3)>>),
               HostArray(<<HostNum(TyInt, 4), HostNum(TyInt, 5), HostNum(TyInt, 6)>>)>>)}
HostTypes ==
  {Prim("Int", "Scalar"), Prim("Float", "D4"),
   ArrayOf(Prim("Int", "Scalar"), 3),
   ArrayOf(ArrayOf(Prim("Int", "Scalar"), 3), 2),
   ArrayOf(ArrayOf(ArrayOf(Prim("Float", "D2"), 4), 3), 2)}
SliceVars == {VertexShaderEnvNew.clip_distance, GeometryShaderEnvNew.clip_distance}
SliceExprs == {FragmentShaderEnvNew.clip_distance} \cup {Clone(v) : v \in SliceVars}
ArrayExprs == {ExprFromArray(array) : array \in HostArrays} \cup SliceExprs
Indices == {i \in Operands : OperandTy(i) = TyInt}

NextExprs ==
  \/ \E T \in HostTypes : TypeOf(T)
  \/ \E array \in HostArrays : FromArray(array)
  \/ \E a \in ArrayExprs, index \in Indices : ExprAt(a, index)
  \/ \E a \in SliceVars, index \in Indices : VarAt(a, index)
  \/ \E op \in BinOps, lhs \in Operands, rhs \in Operands : Binop(op, lhs, rhs)
  \/ new_vertex_shader
  \/ new_tess_ctrl_shader
  \/ new_tess_eval_shader
  \/ new_geometry_shader
  \/ new_fragment_shader
  \/ \E base \in SwBases, sw \in SeqsUpTo(SwizzleSelector, 4) : Swizzle(base, sw)
  \/ \E base \in SwBases, names \in SeqsUpTo(SwNames, 2) : Sw(base, names)

SpecExprs == Init /\ [][NextExprs]_vars

\* Host programs that keep registering declarations on a shader whose
\* counter is about to reach the largest u16: the shader has registered
\* NearFull inputs, or NearFull functions of empty body, and registers
\* MaxMore declarations more.
NearFull == U16Max - 1
ManyInputs == [j \in 1..NearFull |-> In(j - 1, TyInt)]
ManyFuns ==
  [j \in 1..NearFull |-> FunDef(j - 1, ErasedFunNew(<<>>, BuildFnScope, Void))]

InitNearFull ==
  /\ \/ decls = ManyInputs /\ next_global_handle = NearFull /\ next_fun_handle = 0
     \/ decls = ManyFuns /\ next_global_handle = 0 /\ next_fun_handle = NearFull
  /\ stack = <<>>
  /\ ret = [k |-> "Unit"]
  /\ call = [op |-> "new"]
  /\ other = <<>>

More == Len(decls) < NearFull + MaxMore

NextNearFull ==
  \/ More /\ Fun(<<>>, TyUnit)
  \/ FunEnd(Unit)
  \/ More /\ MainFun(TyUnit)
  \/ MainFunEnd(Unit)
  \/ \E expr \in Consts : More /\ Constant(expr)
  \/ \E T \in Types : More /\ Input(T)
  \/ \E T \in Types : More /\ Output(T)

SpecNearFull == InitNearFull /\ [][NextNearFull]_vars

\* A host program whose function or main closure has declared NearFull locals
\* in its body scope and declares up to MaxMore more.
ManyVars == [j \in 1..NearFull |-> VarDecl(TyInt, fun_var(0, j - 1), LitInt(3))]

InitManyVars ==
  /\ decls = <<>>
  /\ next_fun_handle = 0
  /\ next_global_handle = 0
  /\ \E blk \in {"fun", "main_fun"} :
       stack = <<[NewFrame([id |-> 0, instructions |-> ManyVars, next_var |-> NearFull],
                           blk, TyUnit, <<>>, NoExpr, NoExpr, Unit,
                           [args |-> <<>>, R |-> TyUnit, passed |-> BuildFnArgs(<<>>)])
                    EXCEPT !.log = ManyVars]>>
  /\ ret = [k |-> "Var", var |-> VarNew(TyInt, fun_var(0, NearFull - 1))]
  /\ call = [op |-> "var", init_value |-> Expr(TyInt, LitInt(3))]
  /\ other = <<>>

MoreVars == stack # <<>> /\ Len(Top.erased.instructions) < NearFull + MaxMore
ManyInits == Lits \cup {Expr(TyInt, LitInt(3))}

NextManyVars ==
  \/ \E init_value \in ManyInits : MoreVars /\ Var(init_value)
  \/ FunEnd(Unit)
  \/ MainFunEnd(Unit)

SpecManyVars == InitManyVars /\ [][NextManyVars]_vars

\* Two threads, each building a shader with a builder of its own, their
\* calls interleaved in any order: each registers up to MaxEach declarations,
\* the closure handed to fun declaring at most one local.
Each == Len(decls) < MaxEach

NextTwo ==
  \/ NewBuilder
  \/ Switch
  \/ Each /\ Fun(<<>>, TyUnit)
  \/ FunEnd(Unit)
  \/ \E expr \in Consts : Each /\ Constant(expr)
  \/ \E T \in Types : Each /\ Input(T)
  \/ stack # <<>> /\ Top.erased.next_var = 0 /\ Room(1) /\ Var(Expr(TyInt, LitInt(3)))

SpecTwo == Init /\ [][NextTwo]_vars

----------------------------------------------------------------------------
(* Reading the recorded program *)

IsVarDecl(instr) == instr.i = "VarDecl"
IsFunDecl(decl) == decl.d \in {"Main", "FunDef"}
IsGlobalDecl(decl) == decl.d \in {"Const", "In", "Out"}

Blocks(scope) ==
  {j \in 1..Len(scope.instructions) : scope.instructions[j].i \in BlockInstrs}

\* a scope and every scope nested in it
RECURSIVE SubScopes(_)
SubScopes(scope) ==
  {scope} \cup UNION {SubScopes(scope.instructions[j].scope) : j \in Blocks(scope)}

\* the body scopes of the registered functions, and every scope under construction
BodyScopes == {decls[j].fun.scope : j \in {j \in 1..Len(decls) : IsFunDecl(decls[j])}}
OpenScopes == {stack[j].erased : j \in 1..Len(stack)}
AllScopes == UNION {SubScopes(scope) : scope \in BodyScopes \cup OpenScopes}

\* the handles of the VarDecl instructions of a list, nested ones included
RECURSIVE DeclHandles(_)
DeclHandles(instrs) ==
  IF instrs = <<>> THEN <<>>
  ELSE LET h == Head(instrs) IN
       (IF h.i = "VarDecl" THEN <<h.handle>>
        ELSE IF h.i \in BlockInstrs THEN DeclHandles(h.scope.instructions)
        ELSE <<>>) \o DeclHandles(Tail(instrs))

\* the same for the function under construction
RECURSIVE OpenHandles(_)
OpenHandles(frames) ==
  IF frames = <<>> THEN <<>>
  ELSE DeclHandles(Head(frames).erased.instructions) \o OpenHandles(Tail(frames))

NoDup(seq) == \A i, j \in 1..Len(seq) : i # j => seq[i] # seq[j]

Kinds(ds) == [j \in 1..Len(ds) |-> ds[j].d]
InstrKinds(scope) == [j \in 1..Len(scope.instructions) |-> scope.instructions[j].i]
CountKinds(ds, kinds) == Cardinality({j \in 1..Len(ds) : ds[j].d \in kinds})

ShaderOps == {"input", "output", "constant", "fun", "main_fun"}
DeclKind(op) ==
  CASE op = "input" -> "In"
    [] op = "output" -> "Out"
    [] op = "constant" -> "Const"
    [] op = "fun" -> "FunDef"
    [] op = "main_fun" -> "Main"

\* the scope a body closure leaves behind when the calls it made appended body
ClosedScope(id, body) ==
  [id |-> id, instructions |-> body, next_var |-> Len(SelectSeq(body, IsVarDecl))]

----------------------------------------------------------------------------
(* Claims *)

\* C1: within one function body no two VarDecl instructions, at any nesting
\* depth and in sibling sub-scopes included, carry the same FunVar{subscope,
\* handle} pair.
C1_FunVarUnique ==
  /\ \A scope \in BodyScopes : NoDup(DeclHandles(scope.instructions))
  /\ NoDup(OpenHandles(stack))

\* what C2 requires of one step
C2_Step ==
  /\ IF call'.op \in ShaderOps
     THEN /\ Len(decls') = Len(decls) + 1
          /\ SubSeq(decls', 1, Len(decls)) = decls
          /\ Last(decls').d = DeclKind(call'.op)
     ELSE decls' = decls
  /\ next_global_handle' = CountKinds(decls', {"Const", "In", "Out"})
  /\ next_fun_handle' = CountKinds(decls', {"FunDef"})

C3_Step ==
  call'.op = "var" =>
    LET s == Top.erased.id
        n == Top.erased.next_var
        init == call'.init_value
        after == stack'[Len(stack)].erased
        declared == SelectSeq(after.instructions, IsVarDecl)
    IN /\ Len(stack') = Len(stack)
       /\ \A k \in 1..(Len(stack) - 1) : stack'[k] = stack[k]
       /\ after = [id |-> s,
                   instructions |-> Append(Top.erased.instructions,
                                           VarDecl(init.ty, fun_var(s, n), init.erased)),
                   next_var |-> n + 1]
       /\ ret' = [k |-> "Var", var |-> Expr(init.ty, MutVar(fun_var(s, n)))]
       /\ \A k \in 1..Len(declared) : declared[k].handle = fun_var(s, k - 1)

C4_Step ==
  /\ (call'.op = "enter" /\ call'.of \in {"when", "or_else", "or"}) =>
       /\ Len(stack') = Len(stack) + 1
       /\ stack'[Len(stack')].erased =
            [id |-> Top.erased.id + 1, instructions |-> <<>>, next_var |-> 0]
  /\ (call'.op = "or" /\ [j \in 1..Len(stack'[Len(stack')].when) |->
                            stack'[Len(stack')].when[j].op] = <<"when", "or_else", "or">>) =>
       LET p == stack'[Len(stack')]
           id == p.erased.id + 1
       IN p.erased.instructions =
            p.when[1].before \o
            << If(p.when[1].condition.erased, ClosedScope(id, p.when[1].body)),
               ElseIf(p.when[2].condition.erased, ClosedScope(id, p.when[2].body)),
               Else(ClosedScope(id, p.when[3].body)) >>

\* C4: after when(c, body).or_else(c2, b2).or(b3) the parent's instructions
\* are those before the when followed by If{c, s1}, ElseIf{c2, s2}, Else{s3};
\* each si has id parent.id + 1, starts with next_var = 0 and holds exactly
\* what its body closure appended.
C4_WhenChain == [][C4_Step]_vars

C4_Witness ==
  /\ call.op = "or"
  /\ stack # <<>>
  /\ Len(Top.when) = 3
  /\ Top.when[2].op = "or_else"
  /\ Top.when[1].condition # Top.when[2].condition
  /\ Top.when[1].body # <<>>
  /\ Top.when[1].before = <<>>

\* what C5 requires of one step
C5_Step ==
  call'.op = "loop_for" =>
    LET id == Parent.erased.id + 1
        init == call'.init_value
        induction == Expr(init.ty, MutVar(fun_var(id, 0)))
        sub == ClosedScope(id, <<VarDecl(init.ty, fun_var(id, 0), init.erased)>>
                               \o Top.log)
    IN /\ Len(stack') = Len(stack) - 1
       /\ \A k \in 1..(Len(stack) - 2) : stack'[k] = stack[k]
       /\ stack'[Len(stack')].erased =
            [Parent.erased EXCEPT !.instructions =
               Append(@, For(init.ty, fun_var(id, 0), MutVar(fun_var(id, 0)),
                             ApplyCond(call'.condition, induction).erased,
                             ApplyStep(call'.iter_fold, induction).erased,
                             sub))]

\* C5: loop_for on a parent with id p appends exactly one For; its sub-scope
\* has id p + 1 and starts with the induction VarDecl{T::ty(), FunVar{p+1, 0},
\* E(init)} followed by what body_fn appended; init_ty and init_handle are
\* those of that VarDecl, init_expr is MutVar(FunVar{p+1, 0}), condition and
\* post_expr are cond_fn and step_fn applied to the induction variable.
C5_LoopFor == [][C5_Step]_vars

C5_Witness ==
  /\ call.op = "loop_for"
  /\ call.body # <<>>
  /\ stack # <<>>
  /\ Top.erased.id = 1

\* C6: in every scope, ElseIf and Else are never the first instruction, and
\* the instruction right before an ElseIf or Else is an If or an ElseIf.
C6_ElseFollowsIf ==
  \A scope \in AllScopes :
    \A j \in 1..Len(scope.instructions) :
      scope.instructions[j].i \in {"ElseIf", "Else"} =>
        /\ j > 1
        /\ scope.instructions[j - 1].i \in {"If", "ElseIf"}

C6_Witness ==
  \E scope \in AllScopes :
    /\ scope.id = 0
    /\ InstrKinds(scope) = <<"If", "ElseIf", "ElseIf", "Else">>

\* C7: a function body scope has id 0 and every sub-scope stored in an
\* If/ElseIf/Else/For/While of a scope with id i has id i + 1, the scopes
\* under construction included.
C7_IdIsDepth ==
  /\ \A scope \in BodyScopes : scope.id = 0
  /\ stack # <<>> => stack[1].erased.id = 0
  /\ \A k \in 2..Len(stack) : stack[k].erased.id = stack[k - 1].erased.id + 1
  /\ \A scope \in AllScopes :
       \A j \in Blocks(scope) : scope.instructions[j].scope.id = scope.id + 1

C7_Witness ==
  \E scope \in BodyScopes :
    \E inner \in SubScopes(scope) :
      /\ inner.id = 2
      /\ inner.instructions # <<>>

\* C8: decls contains at most one ShaderDecl::Main.
C8_AtMostOneMain == CountKinds(decls, {"Main"}) <= 1

C10_Step ==
  LET body == ErasedFunNew(Top.given.args, Top.erased, ErasedReturnFrom(call'.ret))
  IN /\ call'.op = "fun" =>
          /\ ret' = [k |-> "FunHandle", erased |-> UserDefined(next_fun_handle)]
          /\ Last(decls') = FunDef(next_fun_handle, body)
     /\ call'.op \in {"constant", "input", "output"} =>
          /\ ret'.k = "Var"
          /\ ret'.var.erased = MutVar(global(next_global_handle))
          /\ Last(decls').d = DeclKind(call'.op)
          /\ Last(decls').handle = next_global_handle
     /\ call'.op = "main_fun" =>
          /\ ret' = [k |-> "FunHandle", erased |-> MainHandle]
          /\ Last(decls') = Main(body)
          /\ next_fun_handle' = next_fun_handle
          /\ next_global_handle' = next_global_handle

\* C10: fun returns UserDefined(n) and appends FunDef(n, body) with n the
\* pre-call next_fun_handle; constant, input and output return a Var on
\* MutVar(Global(i)) and append a declaration carrying i, the pre-call
\* next_global_handle; main_fun appends Main(body), returns the handle Main
\* and leaves both counters unchanged.
C10_HandleMatchesDecl == [][C10_Step]_vars

C10_Witness ==
  /\ call.op = "fun"
  /\ ret = [k |-> "FunHandle", erased |-> UserDefined(1)]
  /\ Last(decls).fun.scope.instructions # <<>>
  /\ next_global_handle > 0

\* the global declarations of ds, in order
Globals(ds) == SelectSeq(ds, IsGlobalDecl)

C12_Step ==
  /\ (call'.op = "enter" /\ call'.of = "fun") =>
       LET f == stack'[1]
       IN /\ Len(stack') = 1
          /\ f.erased = [id |-> 0, instructions |-> <<>>, next_var |-> 0]
          /\ Len(f.given.passed) = Len(f.given.args)
          /\ \A k \in 1..Len(f.given.args) :
               f.given.passed[k] = Expr(f.given.args[k], MutVar(fun_arg(k - 1)))
  /\ call'.op = "fun" =>
       LET fun == Last(decls').fun
       IN /\ fun.args = Top.given.args
          /\ fun.scope = ClosedScope(0, Top.log)
          /\ fun.ret = IF call'.ret = Unit THEN Void
                       ELSE RetExpr(call'.ret.ty, call'.ret.erased)

\* C12: building a function from a closure of n typed parameters hands the
\* closure a scope with id 0, no instruction and next_var 0 and passes
\* parameter k as MutVar(FunArg(k)), k = 0..n-1; the ErasedFun lists the n
\* parameter types in order, its body holds exactly the instructions the
\* closure appended, and its ret is Void when the closure returns () and
\* Expr(T::ty(), erased) when it returns an Expr<T>.
C12_BuildFn == [][C12_Step]_vars

C12_Witness ==
  /\ call.op = "fun"
  /\ call.args = <<TyUInt, TyInt>>
  /\ call.body # <<>>
  /\ Last(decls).fun.ret = RetExpr(TyInt, MutVar(fun_arg(1)))

\* C13: function definition and function-handle call support the same
\* arities, exactly 0 through 16: every registered function has at most 16
\* arguments and its handle has a call method for that number of arguments.
C13_SameArities ==
  \A j \in 1..Len(decls) :
    decls[j].d = "FunDef" =>
      /\ Len(decls[j].fun.args) <= 16
      /\ Len(decls[j].fun.args) \in FunCallArities

\* what C14 requires of one step
C14_Step ==
  call'.op = "call" =>
    /\ ret'.k = "Expr"
    /\ ret'.expr.erased =
         FunCall(call'.handle.erased,
                 [k \in 1..Len(call'.args) |-> call'.args[k].erased])
    /\ \E j \in 1..Len(decls) :
         /\ decls[j].d = "FunDef"
         /\ call'.handle.erased = UserDefined(decls[j].handle)
         /\ Len(call'.args) = Len(decls[j].fun.args)
    /\ UNCHANGED <<decls, next_fun_handle, next_global_handle, stack>>
    /\ Handles' = Handles

\* C14: calling a function handle with a1..an yields FunCall(h, [E(a1), ...,
\* E(an)]), h the UserDefined(n) that fun returned and the arguments in call
\* order; the call changes neither the Shader nor the handles, so the node
\* depends on the handle and the arguments only.
C14_CallNode == [][C14_Step]_vars

C14_Witness ==
  /\ call.op = "call"
  /\ call.handle.erased = UserDefined(1)
  /\ Len(call.args) = 16
  /\ call.args[1] # call.args[16]
  /\ ret.expr.erased.args[16] = LitInt(1)

\* the selector a component name stands for
ComponentOf(a) ==
  CASE a \in {"x", "r"} -> "X"
    [] a \in {"y", "g"} -> "Y"
    [] a \in {"z", "b"} -> "Z"
    [] a \in {"w", "a"} -> "W"

\* the selectors of a Swizzle, in order
SelectorsOf(sw) ==
  CASE sw.sw = "D1" -> <<sw.x>>
    [] sw.sw = "D2" -> <<sw.x, sw.y>>
    [] sw.sw = "D3" -> <<sw.x, sw.y, sw.z>>
    [] sw.sw = "D4" -> <<sw.x, sw.y, sw.z, sw.w>>

\* the position of a selector among the components of a vector
SelectorIndex(x) == CASE x = "X" -> 1 [] x = "Y" -> 2 [] x = "Z" -> 3 [] x = "W" -> 4

\* C15: the component names of sw! map to selectors as x/r -> X, y/g -> Y,
\* z/b -> Z and w/a -> W.
C15_SwNames ==
  call.op = "sw" =>
    SelectorsOf(ret.expr.erased.swizzle) =
      [k \in 1..Len(call.names) |-> ComponentOf(call.names[k])]

\* C17: a swizzle on a VN base is accepted only with 1..N selectors, each
\* naming a component that exists in the base.
C17_SelectorsInBase ==
  call.op = "swizzle" =>
    /\ Len(call.sw) \in 1..DimN(call.base.ty)
    /\ \A k \in 1..Len(call.sw) : SelectorIndex(call.sw[k]) <= DimN(call.base.ty)

\* C18: a swizzle with d selectors (d in 1..4) on a vector expression gives
\* Swizzle(E(base), Dd(selectors)) with the selectors in the order given,
\* repetitions included, and an expression of the base's type.
C18_SwizzleNode ==
  call.op = "swizzle" =>
    /\ ret.expr.erased.e = "Swizzle"
    /\ ret.expr.erased.object = call.base.erased
    /\ ret.expr.erased.swizzle.sw = <<"D1", "D2", "D3", "D4">>[Len(call.sw)]
    /\ SelectorsOf(ret.expr.erased.swizzle) = call.sw
    /\ ret.expr.ty = call.base.ty

C18_Witness ==
  /\ call.op = "swizzle"
  /\ call.base.erased = LitInt4(<<1, 2, 3, 4>>)
  /\ call.sw = <<"W", "X", "X", "Z">>

\* the built-in an expression of an environment refers to
BuiltInOf(e) == IF e.erased.e = "MutVar" THEN e.erased.h.builtin ELSE e.erased.builtin

\* C16: in the tessellation-evaluation environment cull_distance references
\* the CullDistance built-in and clip_distance the ClipDistance built-in, and
\* every output handle of a stage environment references a built-in distinct
\* from that of every other handle of the environment.
C16_EnvBuiltIns ==
  call.op = "new_shader" =>
    /\ call.stage = "TessEval" =>
         /\ ret.env.cull_distance.erased =
              MutVar(builtin(BuiltIn("TessEval", "CullDistance")))
         /\ ret.env.clip_distance.erased =
              MutVar(builtin(BuiltIn("TessEval", "ClipDistance")))
    /\ \A f \in EnvOutputs(call.stage) :
         \A g \in (DOMAIN ret.env) \ {f} : BuiltInOf(ret.env[f]) # BuiltInOf(ret.env[g])

\* the erased expression an operand stands for: a host value stands for its
\* literal
OperandErased(x) ==
  IF x.form # "raw" THEN x.value.erased
  ELSE CASE x.value.ty = TyInt -> LitInt(x.value.v)
         [] x.value.ty = TyUInt -> LitUInt(x.value.v)
         [] x.value.ty = TyFloat -> LitFloat(x.value.v)
         [] x.value.ty = TyBool -> LitBool(x.value.b)

\* two erased expressions are the same node
SameErased(x, y) == x.e = y.e /\ x = y

\* what C19 requires of two operations in a row
C19_Step ==
  /\ call'.op = "binop" =>
       /\ ret'.expr.erased.e = call'.operator
       /\ SameErased(ret'.expr.erased.a, OperandErased(call'.lhs))
       /\ SameErased(ret'.expr.erased.b, OperandErased(call'.rhs))
  /\ ( /\ call.op = "binop"
       /\ call'.op = "binop"
       /\ call'.operator = call.operator
       /\ SameErased(OperandErased(call'.lhs), OperandErased(call.lhs))
       /\ SameErased(OperandErased(call'.rhs), OperandErased(call.rhs)) )
     => ret'.expr.erased = ret.expr.erased

\* C19: the erased tree of a binary operation is op(E(a), E(b)) whether a
\* and b are passed owned or borrowed, and with a host value v for b it is
\* that of a op lit(v): two operations with the same operator and the same
\* operand values give the same node whatever the operand forms.
C19_FormIndependent == [][C19_Step]_vars

C19_Witness ==
  /\ call.op = "binop"
  /\ call.operator = "Sub"
  /\ call.lhs = Operand("borrowed", Expr(TyInt, MutVar(fun_var(0, 0))))
  /\ call.rhs.form = "raw"
  /\ ret.expr.erased = BinNode("Sub", MutVar(fun_var(0, 0)), LitInt(2))

\* what C20 requires of one step
C20_Step ==
  call'.op = "at" =>
    LET out == IF call'.self = "Var" THEN ret'.var ELSE ret'.expr
    IN /\ ret'.k = call'.self
       /\ out.erased.e = "ArrayLookup"
       /\ SameErased(out.erased.object, call'.a.erased)
       /\ SameErased(out.erased.index, OperandErased(call'.index))
       /\ UNCHANGED <<decls, next_fun_handle, next_global_handle, stack>>

\* C20: for an array or slice expression a and an integer index i, a.at(i)
\* is an expression with erased form ArrayLookup{object: E(a), index:
\* E(lit(i))}; on a Var of a slice, at gives a Var around the same node; a
\* and the shader are left as they were.
C20_ArrayLookup == [][C20_Step]_vars

C20_Witness ==
  /\ call.op = "at"
  /\ call.self = "Var"
  /\ call.a = VertexShaderEnvNew.clip_distance
  /\ call.index.form = "raw"
  /\ ret.var.erased = ArrayLookup(VertexShaderEnvNew.clip_distance.erased, LitInt(2))

\* the extents of a host array type and of a host array, outermost first,
\* and the primitive type inside
RECURSIVE Extents(_)
Extents(T) == IF T.t = "array" THEN <<T.n>> \o Extents(T.elem) ELSE <<>>
RECURSIVE Innermost(_)
Innermost(T) == IF T.t = "array" THEN Innermost(T.elem) ELSE T
IsHostArray(v) == "items" \in DOMAIN v
RECURSIVE Shape(_)
Shape(v) == IF IsHostArray(v) THEN <<Len(v.items)>> \o Shape(v.items[1]) ELSE <<>>

\* node is the lowering of the host array v
RECURSIVE LoweredArray(_, _)
LoweredArray(v, node) ==
  /\ node.e = "Array"
  /\ node.ty.prim_ty = "Int"
  /\ node.ty.array_dims = Shape(v)
  /\ Len(node.items) = Len(v.items)
  /\ \A k \in 1..Len(v.items) :
       IF IsHostArray(v.items[k])
       THEN LoweredArray(v.items[k], node.items[k])
       ELSE node.items[k] = LitInt(v.items[k].v)

\* C21: a scalar or vector type has empty array_dims and [[T; N]; M] has
\* array_dims = [M, N] (extents outermost first) with the primitive type of
\* T; an array literal lowers to Array(type of the whole array, element nodes
\* in order), each nested element an Array node with the inner array's type.
C21_ArrayTypes ==
  /\ call.op = "ty" =>
       /\ ret.ty.array_dims = Extents(call.T)
       /\ ret.ty.prim_ty = Innermost(call.T).prim_ty
       /\ ret.ty.dim = Innermost(call.T).dim
  /\ call.op = "from" => LoweredArray(call.array, ret.expr.erased)

C21_Witness ==
  /\ call.op = "from"
  /\ Shape(call.array) = <<2, 3>>
  /\ ret.expr.erased.items[2].items[1] = LitInt(4)

\* the handles a counter has handed out: those of the declarations it numbered
GlobalHandles == {decls[j].handle : j \in {j \in 1..Len(decls) : IsGlobalDecl(decls[j])}}
FunHandles == {decls[j].handle : j \in {j \in 1..Len(decls) : decls[j].d = "FunDef"}}
VarHandles(scope) ==
  {scope.instructions[j].handle.handle :
     j \in {j \in 1..Len(scope.instructions) : IsVarDecl(scope.instructions[j])}}

\* what C22 requires of one step
C22_Step ==
  /\ ret'.k # "Panic"
  /\ call'.op \in ShaderOps =>
       /\ Len(decls') = Len(decls) + 1
       /\ Last(decls').d = DeclKind(call'.op)
  /\ call'.op \in {"var", "set", "leave", "abort", "loop_continue", "loop_break"} =>
       Len(stack'[Len(stack')].erased.instructions) = Len(Top.erased.instructions) + 1
  /\ call'.op \in {"when", "or_else", "or", "loop_for", "loop_while"} =>
       Len(stack'[Len(stack')].erased.instructions) = Len(Parent.erased.instructions) + 1

\* C22: no builder operation has an error outcome: from every reachable
\* state each of fun, main_fun, constant, input, output, var, set, leave,
\* abort, when, or_else, or, unless, loop_for, loop_while, loop_continue and
\* loop_break completes and appends its declaration or instruction.
C22_NoErrorOutcome == [][C22_Step]_vars

\* what C30 requires of one step
C30_Step ==
  /\ (call'.op \in {"constant", "input", "output"} /\ ret'.k = "Var") =>
       \A h \in GlobalHandles : h < ret'.var.erased.h.handle
  /\ (call'.op = "fun" /\ ret'.k = "FunHandle") =>
       \A h \in FunHandles : h < ret'.erased.n
  /\ call'.op = "var" =>
       \A h \in VarHandles(Top.erased) : h < ret'.var.erased.h.handle
  /\ call'.op = "enter" =>
       stack'[Len(stack')].erased.id = 0
       \/ stack'[Len(stack')].erased.id > stack'[Len(stack') - 1].erased.id

\* C30: the 16-bit counters never wrap: each handle returned by Scope::var,
\* Shader::fun or Shader::constant/input/output is strictly greater than
\* every handle the same counter returned before, the allocation made when
\* the counter holds 65535 included, and a sub-scope has an id strictly
\* greater than its parent's.
C30_NeverWraps == [][C30_Step]_vars

\* a builder is as its own calls alone leave it: its counters count its own
\* declarations, which carry the indices 0, 1, 2, ... of their kind in order
Alone(b) ==
  LET globals == SelectSeq(b.decls, IsGlobalDecl)
      funs == SelectSeq(b.decls, LAMBDA d : d.d = "FunDef")
  IN /\ b.next_global_handle = Len(globals)
     /\ b.next_fun_handle = Len(funs)
     /\ \A j \in 1..Len(globals) : globals[j].handle = j - 1
     /\ \A j \in 1..Len(funs) : funs[j].handle = j - 1
     /\ (b.ret.k = "Var" /\ b.ret.var.erased.h.k = "Global") =>
          b.ret.var.erased.h.handle = Len(globals) - 1
     /\ b.ret.k = "FunHandle" => b.ret.erased.n = Len(funs) - 1

\* what C23 requires of one step
C23_Step ==
  /\ call'.op = "switch" => other' = <<Running>> /\ Running' = other[1]
  /\ call'.op = "new_builder" =>
       /\ Running' = Running
       /\ other' = <<[decls |-> <<>>, next_fun_handle |-> 0, next_global_handle |-> 0,
                      stack |-> <<>>, ret |-> [k |-> "Unit"]]>>
  /\ call'.op \notin {"switch", "new_builder"} => other' = other
  /\ Alone(Running')
  /\ \A j \in 1..Len(other') : Alone(other'[j])

\* C23: no state is shared between builders: a call on one builder leaves
\* the other builder (decls, counters, scopes, the handles it returned) as
\* it was, a builder resumes exactly as it stood, and each builder is as its
\* own calls alone leave it, however the calls of the two are interleaved.
C23_NoSharedState == [][C23_Step]_vars

C23_Witness ==
  /\ call.op = "input"
  /\ Kinds(decls) = <<"Const", "In">>
  /\ other # <<>>
  /\ Kinds(other[1].decls) = <<"In">>
  /\ other[1].stack # <<>>
  /\ other[1].stack[1].erased.next_var = 1

\* the calls that return after running a body closure
BlockOps == {"when", "or_else", "or", "loop_for", "loop_while"}

\* what C24 requires of one step
C24_Step ==
  LET n == Len(stack)
  IN /\ call'.op = "enter" =>
          /\ Len(stack') = n + 1
          /\ \A j \in 1..n : stack'[j].erased = stack[j].erased
     /\ (n > 1 /\ Len(stack') = n) =>
          \A j \in 1..(n - 1) : stack'[j].erased = stack[j].erased
     /\ call'.op \in BlockOps =>
          LET p == Parent.erased
              q == stack'[n - 1].erased
              sub == Top.erased
              tail == Len(sub.instructions) - Len(Top.log)
          IN /\ Len(stack') = n - 1
             /\ \A j \in 1..(n - 2) : stack'[j].erased = stack[j].erased
             /\ q.id = p.id
             /\ q.next_var = p.next_var
             /\ Len(q.instructions) = Len(p.instructions) + 1
             /\ SubSeq(q.instructions, 1, Len(p.instructions)) = p.instructions
             /\ Last(q.instructions).i \in BlockInstrs
             /\ Last(q.instructions).scope = sub
             /\ tail >= 0
             /\ SubSeq(sub.instructions, tail + 1, Len(sub.instructions)) = Top.log
             /\ call'.body = Top.log

\* C24: for when, unless, or_else, or, loop_for and loop_while, the scopes
\* below the one a body closure is filling do not change while the closure
\* runs; when it returns, the parent gets exactly one more instruction, a
\* block carrying the sub-scope with every instruction the body appended,
\* and the parent's id, next_var and earlier instructions are as before the
\* call.
C24_BlockFrame == [][C24_Step]_vars

C24_Witness ==
  /\ call.op = "loop_while"
  /\ call.body # <<>>
  /\ Len(stack) = 1
  /\ Top.erased.next_var = 1
  /\ Len(Top.erased.instructions) = 2
  /\ Top.erased.instructions[1].i = "VarDecl"

\* the frame was entered by unless: the condition when received is a negation
ByUnless(f) == f.blk = "when" /\ f.given.condition.erased.e = "Not"

\* what C25 requires of one step
C25_Step ==
  LET n == Len(stack)
  IN /\ (call'.op = "enter" /\ call'.of = "unless") =>
          LET sub == stack'[n + 1]
          IN /\ Len(stack') = n + 1
             /\ sub.blk = "when"
             /\ sub.given.condition.erased.e = "Not"
             /\ sub.given.condition = Expr(TyBool, Not(call'.condition.erased))
             /\ sub.condition = sub.given.condition
             /\ sub.erased = [id |-> Top.erased.id + 1, instructions |-> <<>>,
                              next_var |-> 0]
             /\ stack'[n].erased = Top.erased
     /\ (call'.op = "when" /\ ByUnless(Top)) =>
          LET p == Parent.erased
              q == stack'[n - 1]
              cond == Top.given.condition.erased.a
          IN /\ q.erased = [p EXCEPT !.instructions =
                              Append(@, If(Not(cond), ClosedScope(p.id + 1, Top.log)))]
             /\ ret' = [k |-> "When", parent_scope |-> p.id]
             /\ WhenAlive(q)
     /\ (call'.op \in {"or_else", "or"} /\ Parent.when[1].condition.erased.e = "Not") =>
          LET p == Parent.erased
              q == stack'[n - 1].erased
              first == Len(Parent.when[1].before) + 1
          IN /\ p.instructions[first].i = "If"
             /\ p.instructions[first].condition.e = "Not"
             /\ \A j \in (first + 1)..Len(p.instructions) :
                  p.instructions[j].i = "ElseIf"
             /\ Len(q.instructions) = Len(p.instructions) + 1
             /\ Last(q.instructions).i = (IF call'.op = "or" THEN "Else" ELSE "ElseIf")

\* C25: unless(cond, body) is when(!cond, body): the body runs on a fresh
\* scope one deeper than the parent, the parent gets If{Not(E(cond)), sub}
\* with sub holding what the body appended, and the When returned is alive,
\* so that or_else and or put their ElseIf and Else right after that If.
C25_UnlessIsWhenNot == [][C25_Step]_vars

C25_Witness ==
  /\ call.op = "or"
  /\ Len(stack) = 1
  /\ Len(Top.erased.instructions) = 3
  /\ Top.erased.instructions[1].i = "If"
  /\ Top.erased.instructions[1].condition = Not(LitBool(FALSE))
  /\ Top.erased.instructions[2].i = "ElseIf"
  /\ Top.erased.instructions[3].i = "Else"

\* what C26 requires of one step
C26_Step ==
  LET n == Len(stack)
  IN /\ (call'.op = "enter" /\ call'.of = "loop_while") =>
          /\ Len(stack') = n + 1
          /\ stack'[n + 1].erased = [id |-> Top.erased.id + 1, instructions |-> <<>>,
                                     next_var |-> 0]
     /\ call'.op = "loop_while" =>
          LET p == Parent.erased
              q == stack'[n - 1].erased
              body == call'.body
              sub == [id |-> p.id + 1, instructions |-> body,
                      next_var |-> Len(SelectSeq(body, IsVarDecl))]
          IN /\ Len(stack') = n - 1
             /\ body = Top.log
             /\ q = [id |-> p.id,
                     instructions |-> Append(p.instructions,
                                             While(call'.condition.erased, sub)),
                     next_var |-> p.next_var]
             /\ ret' = [k |-> "Unit"]

\* C26: loop_while(cond, body) on a scope of id p appends exactly one
\* instruction, While{E(cond), sub}, where sub has id p + 1, holds exactly the
\* instructions body appended, and has counted its locals from 0; a body that
\* is loop_continue gives a sub-scope holding the single Continue.
C26_LoopWhile == [][C26_Step]_vars

C26_Witness ==
  /\ call.op = "loop_while"
  /\ Len(stack) = 1
  /\ Top.erased =
       [id |-> 0,
        instructions |->
          <<While(Lt(LitInt(1), LitInt(2)),
                  [id |-> 1, instructions |-> <<Continue>>, next_var |-> 0])>>,
        next_var |-> 0]

\* the calls that append one plain instruction
SimpleOps == {"set", "leave", "abort", "loop_continue", "loop_break"}

\* the instruction a simple statement call is to append
SimpleInstr(c) ==
  CASE c.op = "set" -> MutateVar(c.var.erased, c.value.erased)
    [] c.op = "leave" -> Return(IF c.ret = Unit THEN Void
                                ELSE RetExpr(c.ret.ty, c.ret.erased))
    [] c.op = "abort" -> Return(Void)
    [] c.op = "loop_continue" -> Continue
    [] c.op = "loop_break" -> Break

\* what C27 requires of one step
C27_Step ==
  call'.op \in SimpleOps =>
    LET n == Len(stack)
        after == stack'[n].erased
    IN /\ Len(stack') = n
       /\ \A j \in 1..(n - 1) : stack'[j] = stack[j]
       /\ after.id = Top.erased.id
       /\ after.next_var = Top.erased.next_var
       /\ Len(after.instructions) = Len(Top.erased.instructions) + 1
       /\ SubSeq(after.instructions, 1, Len(Top.erased.instructions)) =
            Top.erased.instructions
       /\ Last(after.instructions).i = SimpleInstr(call').i
       /\ Last(after.instructions) = SimpleInstr(call')
       /\ ret' = [k |-> "Unit"]
       /\ UNCHANGED <<decls, next_fun_handle, next_global_handle>>

\* C27: set, leave, abort, loop_continue and loop_break each append exactly
\* one instruction to the scope they are called on and change nothing else:
\* set(v, e) appends MutateVar{E(v), E(e)}, leave(r) appends Return of r's
\* erased form, abort() appends Return(Void) whatever the return type of the
\* scope, loop_continue() appends Continue and loop_break() appends Break.
C27_SimpleStatements == [][C27_Step]_vars

C27_Witness ==
  /\ call.op = "abort"
  /\ Len(stack) = 1
  /\ Top.R = TyInt
  /\ Len(Top.erased.instructions) = 3
  /\ Top.erased.instructions[2].i = "MutateVar"
  /\ Top.erased.instructions[3] = Return(Void)
  /\ Top.erased.next_var = 1

\* the scope counts its own declarations: next_var is the number of VarDecl
\* directly in it, the k-th of them carrying FunVar{id, k}
Counted(scope) ==
  LET declared == SelectSeq(scope.instructions, IsVarDecl)
  IN /\ scope.next_var = Len(declared)
     /\ \A k \in 1..Len(declared) : declared[k].handle = fun_var(scope.id, k - 1)

\* what C28 requires of one step
C28_Step ==
  /\ \A scope \in AllScopes' : Counted(scope)
  /\ (Len(stack') = Len(stack) /\ call'.op # "var") =>
       \A j \in 1..Len(stack) : stack'[j].erased.next_var = stack[j].erased.next_var
  /\ Len(stack') = Len(stack) + 1 =>
       /\ \A j \in 1..Len(stack) : stack'[j].erased.next_var = stack[j].erased.next_var
       /\ stack'[Len(stack')].erased.next_var =
            (IF call'.of = "loop_for" THEN 1 ELSE 0)
  /\ Len(stack') = Len(stack) - 1 =>
       \A j \in 1..Len(stack') : stack'[j].erased.next_var = stack[j].erased.next_var

\* C28: in every scope the builder reaches, function bodies and nested
\* sub-scopes, open or closed, next_var is the number of VarDecl instructions
\* directly in the scope and the k-th of them (from 0) carries the handle
\* FunVar{subscope: id of the scope, handle: k}; only var, and loop_for
\* declaring its induction variable in its own sub-scope, change next_var.
C28_NextVarCounts == [][C28_Step]_vars

\* C29: in each of the five stage environments every input handle has the
\* erased form ImmutBuiltIn(b) and every output handle the erased form
\* MutVar(BuiltIn(b)), b being a built-in of that stage; no input is a
\* mutable-variable reference.
C29_EnvHandles ==
  call.op = "new_shader" =>
    \A f \in DOMAIN ret.env :
      /\ BuiltInOf(ret.env[f]).stage = call.stage
      /\ IF f \in EnvOutputs(call.stage)
         THEN /\ ret.env[f].erased.e = "MutVar"
              /\ ret.env[f].erased.h.k = "BuiltIn"
         ELSE ret.env[f].erased.e = "ImmutBuiltIn"

====
